---- MODULE Spec2Model ----
(***************************************************************************)
(* The methylKit DMR pipeline of wf/__init__.py and wf/task.py:            *)
(* format_bed_files -> methyl_task -> create_track.                        *)
(*                                                                         *)
(* Text is modelled as a sequence of atoms.  An atom is either a single    *)
(* character that user input may contain ("a", ",") or a fragment that     *)
(* contains no separator ("processed_beds", ".bed"), so that joining and   *)
(* splitting work on the separators "," "/" and " " as they do in Python   *)
(* and in the shell.  The p-values and q-values of a results table are     *)
(* integers in a fixed unit, and a normalized value is the exact fraction  *)
(* num / den.  The Formatter's products are float64 products: a float is   *)
(* its 53-bit significand, least bit first, and its exponent.              *)
(***************************************************************************)
EXTENDS Integers, Sequences, FiniteSets, TLC

VARIABLES
    samples,              \* workflow input: List[Sample]
    track_name,           \* workflow input: str
    output_directory,     \* workflow input: LatchOutputDir
    knobs,                \* workflow inputs base_cov_val .. q_val
    started,              \* tasks in the order in which they were started
    done,                 \* tasks that returned
    error,                \* "none", or the error that aborted the run
    processed_bed_files,  \* return value of format_bed_files
    methyl_in,            \* the samples argument methyl_task received
    commands,             \* the shell commands run by subprocess.run
    engine_out,           \* the engine's output directory, in iterdir order
    methyl_results,       \* return value of methyl_task
    track_in,             \* the DMR_results argument create_track received
    track_result,         \* return value of create_track
    df,                   \* create_track's DataFrame, before the projection
    dirs,                 \* directories created by mkdir
    fs                    \* local files: path -> content

vars == <<samples, track_name, output_directory, knobs, started, done, error,
          processed_bed_files, methyl_in, commands, engine_out, methyl_results,
          track_in, track_result, df, dirs, fs>>

(***************************************************************************)
(* Bounds of the model.                                                    *)
(***************************************************************************)
MaxSamples == 2
MaxRows == 3
MaxBedRows == 2
MaxP == 4

(***************************************************************************)
(* Text helpers: str.join, str.split, the substring test, shell words.     *)
(***************************************************************************)
RECURSIVE Join(_, _)
Join(parts, sep) ==
    IF parts = <<>> THEN <<>>
    ELSE IF Len(parts) = 1 THEN parts[1]
    ELSE parts[1] \o sep \o Join(Tail(parts), sep)

RECURSIVE SplitAcc(_, _, _, _)
SplitAcc(s, sep, cur, acc) ==
    IF s = <<>> THEN Append(acc, cur)
    ELSE IF Head(s) = sep THEN SplitAcc(Tail(s), sep, <<>>, Append(acc, cur))
    ELSE SplitAcc(Tail(s), sep, Append(cur, Head(s)), acc)

Split(s, sep) == SplitAcc(s, sep, <<>>, <<>>)

Contains(s, atom) == \E i \in 1..Len(s) : s[i] = atom

NonEmpty(w) == w # <<>>

\* /bin/sh splits the command line into words at blanks; empty words vanish
ShellWords(cmd) == SelectSeq(Split(cmd, " "), NonEmpty)

(***************************************************************************)
(* Path(p).resolve(): relative paths are taken from the working directory, *)
(* "." and empty segments are dropped, ".." removes the segment before it. *)
(***************************************************************************)
Cwd == <<"/root">>

RECURSIVE Normalize(_, _)
Normalize(segs, acc) ==
    IF segs = <<>> THEN acc
    ELSE LET h == Head(segs) IN
         IF h = <<>> \/ h = <<".">> THEN Normalize(Tail(segs), acc)
         ELSE IF h = <<".", ".">>
              THEN Normalize(Tail(segs),
                             IF acc = <<>> THEN acc ELSE SubSeq(acc, 1, Len(acc) - 1))
              ELSE Normalize(Tail(segs), Append(acc, h))

Resolve(p) ==
    IF p # <<>> /\ Head(p) = "/"
    THEN <<"/">> \o Join(Normalize(Split(p, "/"), <<>>), <<"/">>)
    ELSE Join(Normalize(Split(p, "/"), <<Cwd>>), <<"/">>)

(***************************************************************************)
(* LatchFile(path, remote_path) and LatchDir(path, remote_path).           *)
(***************************************************************************)
LatchFile(path, remote_path) == [local_path |-> path, remote_path |-> remote_path]

LatchDir(path, remote_path) == [local_path |-> path, remote_path |-> remote_path]

NoDir == LatchDir(<<>>, <<>>)

(***************************************************************************)
(* Inputs.  The source tables are files that exist before the run: a       *)
(* well-formed one and one with 10 columns only.  cols0_8 stands for the   *)
(* nine leading columns, which the Formatter copies; coverage (column 9)   *)
(* and percentMeth (column 10) hold integers.                              *)
(***************************************************************************)
BedRow(tag, cov, pct) ==
    [cols0_8 |-> <<"chr1", tag, tag + 1, ".", 0, "+", tag, tag + 1, "0,0,0">>,
     coverage |-> cov, percentMeth |-> pct]

InputFiles ==
    ( <<"/data", "/", "a.bed">> :> [ncols |-> 11, rows |-> <<BedRow(100, 10, 50),
                                                            BedRow(200, 7, 25)>>] ) @@
    ( <<"/data", "/", "short.bed">> :> [ncols |-> 10, rows |-> <<>>] )

\* sample names are free text: two plain ones and one with a comma in it
SampleNames == {<<"a">>, <<"b">>, <<"a", ",", "b">>}

TrackNames == {<<"dmr">>, <<"t", "2">>}

Sample(name, file, treatment) ==
    [sample_name |-> name, bed_file |-> file, treatment |-> treatment]

ProcessedBED(name, file, treatment) ==
    [sample_name |-> name, bed_file |-> file, treatment |-> treatment]

SampleSet ==
    {Sample(n, LatchFile(p, <<"latch://">> \o p), t) :
        n \in SampleNames, p \in DOMAIN InputFiles, t \in BOOLEAN}

RECURSIVE SeqsUpTo(_, _)
SeqsUpTo(S, n) ==
    IF n = 0 THEN {<<>>}
    ELSE LET shorter == SeqsUpTo(S, n - 1)
         IN  shorter \cup {Append(q, x) : q \in {u \in shorter : Len(u) = n - 1}, x \in S}

\* q_val is held in hundredths: 1 is 0.01 (the task's default), 5 is 0.05
KnobSet ==
    {[base_cov_val |-> 3, tiling_val |-> 200, tile_coverage |-> 10,
      difference_val |-> 25, q_val |-> q] : q \in {1, 5}}

(***************************************************************************)
(* The workflow dmr_methylkit: each task's data argument is bound to the   *)
(* workflow input or to the result of another task, and a task runs when   *)
(* what it is bound to is available.  An error in a task ends the run.     *)
(***************************************************************************)
BindingsRawSamples ==
    [format_bed_files |-> "input",
     methyl_task      |-> "input",
     create_track     |-> "methyl_task"]

Bindings ==
    [format_bed_files |-> "input",
     methyl_task      |-> "format_bed_files",
     create_track     |-> "methyl_task"]

HasStarted(task) == \E i \in 1..Len(started) : started[i] = task

Ready(task) ==
    /\ error = "none"
    /\ ~HasStarted(task)
    /\ Bindings[task] = "input" \/ Bindings[task] \in done

Init ==
    /\ samples \in SeqsUpTo(SampleSet, MaxSamples) \ {<<>>}
    /\ track_name \in TrackNames
    /\ output_directory = [remote_directory |-> <<"latch://", "/", "out">>]
    /\ knobs \in KnobSet
    /\ started = <<>>
    /\ done = {}
    /\ error = "none"
    /\ processed_bed_files = <<>>
    /\ methyl_in = <<>>
    /\ commands = <<>>
    /\ engine_out = <<>>
    /\ methyl_results = NoDir
    /\ track_in = NoDir
    /\ track_result = NoDir
    /\ df = <<>>
    /\ dirs = {}
    /\ fs = InputFiles

(***************************************************************************)
(* format_bed_files                                                        *)
(***************************************************************************)
\* Series.round(): to the nearest integer, a tie to the even one (num, den >= 0)
RoundHalfEven(num, den) ==
    LET q == num \div den
        r == num % den
    IN  IF 2 * r < den THEN q
        ELSE IF 2 * r > den THEN q + 1
        ELSE IF q % 2 = 0 THEN q ELSE q + 1

(***************************************************************************)
(* float64 arithmetic.  A float is [m, e]: m the significand as a sequence *)
(* of bits, least bit first, of length 53 (or <<>> for 0.0), and the value *)
(* is m * 2^e.  Results are rounded to the nearest float, a tie to the one *)
(* whose last bit is 0.                                                    *)
(***************************************************************************)
HexBits(h) == <<h % 2, (h \div 2) % 2, (h \div 4) % 2, (h \div 8) % 2>>

RECURSIVE BitsOfHex(_)
BitsOfHex(digits) ==
    IF digits = <<>> THEN <<>>
    ELSE BitsOfHex(Tail(digits)) \o HexBits(Head(digits))

RECURSIVE Trim(_)
Trim(bits) ==
    IF bits # <<>> /\ bits[Len(bits)] = 0 THEN Trim(SubSeq(bits, 1, Len(bits) - 1))
    ELSE bits

\* the literal 0.01 is the float 0x147AE147AE147B * 2^-59
Float001 == [m |-> Trim(BitsOfHex(<<1, 4, 7, 10, 14, 1, 4, 7, 10, 14, 1, 4, 7, 11>>)),
             e |-> -59]

Precision == Len(Float001.m)

Zeros(k) == IF k <= 0 THEN <<>> ELSE [i \in 1..k |-> 0]

RECURSIVE BitsOfInt(_)
BitsOfInt(n) == IF n = 0 THEN <<>> ELSE <<n % 2>> \o BitsOfInt(n \div 2)

RECURSIVE IntOfBits(_)
IntOfBits(bits) == IF bits = <<>> THEN 0 ELSE Head(bits) + 2 * IntOfBits(Tail(bits))

RECURSIVE Increment(_)
Increment(bits) ==
    IF bits = <<>> THEN <<1>>
    ELSE IF Head(bits) = 0 THEN <<1>> \o Tail(bits)
    ELSE <<0>> \o Increment(Tail(bits))

RECURSIVE TimesInt(_, _, _)
TimesInt(bits, n, carry) ==
    IF bits = <<>>
    THEN BitsOfInt(carry)
    ELSE LET d == Head(bits) * n + carry
         IN  <<d % 2>> \o TimesInt(Tail(bits), n, d \div 2)

\* is one of the bits 1 .. k set
AnySet(bits, k) == \E i \in 1..k : bits[i] = 1

\* the float nearest to bits * 2^e
RoundToFloat(bits, e) ==
    LET b == Trim(bits)
        k == Len(b) - Precision
    IN  IF b = <<>> THEN [m |-> <<>>, e |-> 0]
        ELSE IF k <= 0 THEN [m |-> Zeros(-k) \o b, e |-> e + k]
        ELSE LET kept == SubSeq(b, k + 1, Len(b))
                 up == b[k] = 1 /\ (AnySet(b, k - 1) \/ kept[1] = 1)
                 r == IF up THEN Increment(kept) ELSE kept
             IN  IF Len(r) > Precision
                 THEN [m |-> SubSeq(r, 2, Len(r)), e |-> e + k + 1]
                 ELSE [m |-> r, e |-> e + k]

\* the product of a float and a float that holds the integer n >= 0
FloatTimesInt(f, n) == RoundToFloat(TimesInt(f.m, n, 0), f.e)

\* Series.round() and the downcast: the nearest integer, a tie to the even one
RoundFloat(f) ==
    IF f.m = <<>> THEN 0
    ELSE IF f.e >= 0 THEN IntOfBits(Zeros(f.e) \o f.m)
    ELSE LET k == -f.e
             b == f.m \o Zeros(k - Len(f.m))
             q == IntOfBits(SubSeq(b, k + 1, Len(b)))
             up == b[k] = 1 /\ (AnySet(b, k - 1) \/ q % 2 = 1)
         IN  IF up THEN q + 1 ELSE q

\* table[10] * 0.01 * table[9], rounded
MethylatedCount(cov, pct) == RoundFloat(FloatTimesInt(FloatTimesInt(Float001, pct), cov))

\* the 12 columns [0..8, 9, 11, 12] of one row; column 12 is percentMeth * 0.01,
\* kept here as the fraction it stands for
FormatRow(r) ==
    r.cols0_8 \o <<r.coverage,
                   MethylatedCount(r.coverage, r.percentMeth),
                   [num |-> r.percentMeth, den |-> 100]>>

FormatTable(table) == [i \in 1..Len(table.rows) |-> FormatRow(table.rows[i])]

\* table[10] exists only in a table of at least 11 columns
ValidTable(table) == table.ncols >= 11

BedOutputDir(tn) == Resolve(tn \o <<"/", "processed_beds">>)

SPath(tn, s) == BedOutputDir(tn) \o <<"/">> \o s.sample_name \o <<".bed">>

BedOutputLocation(od, tn, s) ==
    od.remote_directory \o <<"/">> \o tn \o <<"/", "processed_beds", "/">>
        \o s.sample_name \o <<".bed">>

FormatOneDefaultTreatment(od, tn, s) ==
    ProcessedBED(s.sample_name,
                 LatchFile(SPath(tn, s), BedOutputLocation(od, tn, s)),
                 FALSE)

FormatOne(od, tn, s) ==
    ProcessedBED(s.sample_name,
                 LatchFile(SPath(tn, s), BedOutputLocation(od, tn, s)),
                 s.treatment)

\* the files after the first k samples are written, a later one over an earlier
WriteBeds(files, ss, tn, k) ==
    LET paths == {SPath(tn, ss[i]) : i \in 1..k}
        last(p) == CHOOSE i \in 1..k :
                       /\ SPath(tn, ss[i]) = p
                       /\ \A j \in (i + 1)..k : SPath(tn, ss[j]) # p
    IN  [p \in (DOMAIN files) \cup paths |->
            IF p \in paths THEN FormatTable(files[ss[last(p)].bed_file.local_path])
            ELSE files[p]]

\* the samples before the first one whose table cannot be processed
FirstBad(ss, files) ==
    CHOOSE k \in 0..Len(ss) :
        /\ \A i \in 1..k : ValidTable(files[ss[i].bed_file.local_path])
        /\ k < Len(ss) => ~ValidTable(files[ss[k + 1].bed_file.local_path])

FormatBedFiles ==
    /\ Ready("format_bed_files")
    /\ FirstBad(samples, fs) = Len(samples)
    /\ started' = Append(started, "format_bed_files")
    /\ dirs' = dirs \cup {BedOutputDir(track_name)}
    /\ fs' = WriteBeds(fs, samples, track_name, Len(samples))
    /\ processed_bed_files' =
           [i \in 1..Len(samples) |-> FormatOne(output_directory, track_name, samples[i])]
    /\ done' = done \cup {"format_bed_files"}
    /\ UNCHANGED <<samples, track_name, output_directory, knobs, error, methyl_in,
                   commands, engine_out, methyl_results, track_in, track_result, df>>

\* read_csv / table[10] raise on the first bad table; the files before it stay
FormatBedFilesFail ==
    /\ Ready("format_bed_files")
    /\ FirstBad(samples, fs) < Len(samples)
    /\ started' = Append(started, "format_bed_files")
    /\ dirs' = dirs \cup {BedOutputDir(track_name)}
    /\ fs' = WriteBeds(fs, samples, track_name, FirstBad(samples, fs))
    /\ error' = "MalformedInputError"
    /\ UNCHANGED <<samples, track_name, output_directory, knobs, done,
                   processed_bed_files, methyl_in, commands, engine_out,
                   methyl_results, track_in, track_result, df>>

(***************************************************************************)
(* methyl_task                                                             *)
(***************************************************************************)
FileNames(ss) == Join([i \in 1..Len(ss) |-> ss[i].sample_name], <<",">>)

FilePaths(ss) == Join([i \in 1..Len(ss) |-> ss[i].bed_file.local_path], <<",">>)

TreatmentLabel(s) == IF s.treatment THEN 1 ELSE 0

TreatmentsStr(ss) == Join([i \in 1..Len(ss) |-> <<ToString(TreatmentLabel(ss[i]))>>], <<",">>)

\* str() of a float given in hundredths, 0.01 .. 0.09
StrHundredths(h) == <<"0.0" \o ToString(h)>>

MethylOutputDir(tn) == Resolve(tn \o <<"/", "methylkit">>)

MethylOutputLocationMirrored(od, tn) ==
    od.remote_directory \o <<"/">> \o tn \o <<"/", "methylkit">>

MethylOutputLocation(od, tn) ==
    od.remote_directory \o <<"/">> \o tn \o <<"/", "methylkit_results">>

Command(ss, tn, k) ==
    Join(<< <<"Rscript">>,
            <<"methylkit_task.R">>,
            FileNames(ss),
            FilePaths(ss),
            MethylOutputDir(tn),
            <<ToString(k.base_cov_val)>>,
            <<ToString(k.tiling_val)>>,
            <<ToString(k.tile_coverage)>>,
            <<ToString(k.difference_val)>>,
            StrHundredths(k.q_val),
            TreatmentsStr(ss) >>,
         <<" ">>)

\* the value the workflow binds to methyl_task's samples
SamplesArg == IF Bindings["methyl_task"] = "input" THEN samples ELSE processed_bed_files

(***************************************************************************)
(* What the engine leaves in its output directory.  A result table is the  *)
(* DataFrame read_csv makes of a file: its number of columns and its rows. *)
(* p-values and q-values are integers in a fixed unit.                     *)
(***************************************************************************)
DmrRow(s, p) ==
    [chr |-> "chr1", start |-> s, end |-> s + 200, strand |-> "*",
     pvalue |-> p, qvalue |-> p + 10, methdiff |-> 30]

DmrRows == {DmrRow(s, p) : s \in {1, 201}, p \in 0..MaxP}

DmrTables ==
    {[ncols |-> 7, rows |-> r] : r \in SeqsUpTo(DmrRows, MaxRows)}
        \cup {[ncols |-> c, rows |-> <<>>] : c \in {6, 8}}

Entry(name, table) == [name |-> name, table |-> table]

ResultsName == <<"DMR_regions.csv">>
BackupName == <<"old_", "DMR_regions.csv", ".bak">>
OtherEntry == Entry(<<"plots.pdf">>, [ncols |-> 0, rows |-> <<>>])

SmallTables ==
    {[ncols |-> 7, rows |-> <<DmrRow(1, 0), DmrRow(201, 1)>>],
     [ncols |-> 6, rows |-> <<>>]}

\* directories with no, one or two files whose path has DMR_regions.csv in it
Listings(tables) ==
    {<<>>, <<OtherEntry>>}
        \cup {<<Entry(ResultsName, t)>> : t \in tables}
        \cup {<<OtherEntry, Entry(ResultsName, t)>> : t \in SmallTables}
        \cup {<<Entry(ResultsName, t), OtherEntry>> : t \in SmallTables}
        \cup {<<Entry(ResultsName, t), Entry(BackupName, u)>> : t, u \in SmallTables}
        \cup {<<Entry(BackupName, u), Entry(ResultsName, t)>> : t, u \in SmallTables}

\* the engine's outputs in a run of the whole pipeline
PipelineListings ==
    {<<>>} \cup {<<Entry(ResultsName, t)>> : t \in SmallTables}

MethylTask ==
    /\ Ready("methyl_task")
    /\ started' = Append(started, "methyl_task")
    /\ methyl_in' = SamplesArg
    /\ dirs' = dirs \cup {MethylOutputDir(track_name)}
    /\ commands' = Append(commands, [args |-> Command(SamplesArg, track_name, knobs),
                                     returncode |-> 0])
    /\ engine_out' \in PipelineListings
    /\ methyl_results' = LatchDir(MethylOutputDir(track_name),
                                  MethylOutputLocation(output_directory, track_name))
    /\ done' = done \cup {"methyl_task"}
    /\ UNCHANGED <<samples, track_name, output_directory, knobs, error,
                   processed_bed_files, track_in, track_result, df, fs>>

\* as MethylTaskFail would be without check=True
MethylTaskUnchecked ==
    /\ Ready("methyl_task")
    /\ started' = Append(started, "methyl_task")
    /\ methyl_in' = SamplesArg
    /\ dirs' = dirs \cup {MethylOutputDir(track_name)}
    /\ commands' = Append(commands, [args |-> Command(SamplesArg, track_name, knobs),
                                     returncode |-> 1])
    /\ engine_out' = <<>>
    /\ methyl_results' = LatchDir(MethylOutputDir(track_name),
                                  MethylOutputLocation(output_directory, track_name))
    /\ done' = done \cup {"methyl_task"}
    /\ UNCHANGED <<samples, track_name, output_directory, knobs, error,
                   processed_bed_files, track_in, track_result, df, fs>>

\* check=True: a non-zero exit status raises CalledProcessError
MethylTaskFail ==
    /\ Ready("methyl_task")
    /\ started' = Append(started, "methyl_task")
    /\ methyl_in' = SamplesArg
    /\ dirs' = dirs \cup {MethylOutputDir(track_name)}
    /\ commands' = Append(commands, [args |-> Command(SamplesArg, track_name, knobs),
                                     returncode |-> 1])
    /\ engine_out' = <<>>
    /\ error' = "ExternalEngineError"
    /\ UNCHANGED <<samples, track_name, output_directory, knobs, done,
                   processed_bed_files, methyl_results, track_in, track_result, df, fs>>

(***************************************************************************)
(* create_track                                                            *)
(***************************************************************************)
\* int(): the integer part (the argument is never negative here)
IntPart(num, den) == num \div den

interpolate_color_rounded(n) ==
    LET red == RoundHalfEven((n.den - n.num) * 255, n.den)
        blue == RoundHalfEven(n.num * 255, n.den)
    IN  <<red, ",0,", blue>>

\* f"{red},0,{blue}" for the normalized value n.num / n.den
interpolate_color(n) ==
    LET red == IntPart((n.den - n.num) * 255, n.den)
        blue == IntPart(n.num * 255, n.den)
    IN  <<red, ",0,", blue>>

MinPval(rows) == CHOOSE m \in {rows[i].pvalue : i \in 1..Len(rows)} :
                     \A i \in 1..Len(rows) : m <= rows[i].pvalue

MaxPval(rows) == CHOOSE m \in {rows[i].pvalue : i \in 1..Len(rows)} :
                     \A i \in 1..Len(rows) : m >= rows[i].pvalue

NormalizedDegenerateZero(pvalue, min_pval, max_pval) ==
    IF min_pval = max_pval THEN [num |-> 0, den |-> 1]
    ELSE [num |-> pvalue - min_pval, den |-> max_pval - min_pval]

NormalizedFromMax(pvalue, min_pval, max_pval) ==
    IF min_pval = max_pval THEN [num |-> 1, den |-> 1]
    ELSE [num |-> max_pval - pvalue, den |-> max_pval - min_pval]

Normalized(pvalue, min_pval, max_pval) ==
    IF min_pval = max_pval THEN [num |-> 1, den |-> 1]
    ELSE [num |-> pvalue - min_pval, den |-> max_pval - min_pval]

\* the DataFrame with its added columns
DataFrame(rows) ==
    [i \in 1..Len(rows) |->
        LET n == Normalized(rows[i].pvalue, MinPval(rows), MaxPval(rows))
        IN  [chr |-> rows[i].chr, start |-> rows[i].start, end |-> rows[i].end,
             name |-> ToString(rows[i].qvalue), score |-> 0, strand |-> ".",
             o1 |-> rows[i].start, o2 |-> rows[i].end,
             pvalue |-> rows[i].pvalue, normalized |-> n,
             color |-> interpolate_color(n)]]

TrackRowThickEnds(d) == <<d.chr, d.start, d.end, d.name, d.score, d.strand, d.o2, d.o2, d.color>>

TrackRow(d) == <<d.chr, d.start, d.end, d.name, d.score, d.strand, d.o1, d.o2, d.color>>

HeaderLine(tn) == <<"track name=\"">> \o tn \o <<"\" description=\".\" itemRgb=\"On\"">>

TrackContent(tn, frame) == <<HeaderLine(tn)>> \o [i \in 1..Len(frame) |-> TrackRow(frame[i])]

TrackOutputDir(tn) == Resolve(tn \o <<"/", "IGV_tracks">>)

TrackPath(tn) == TrackOutputDir(tn) \o <<"/", "IGV_track.bed">>

TrackOutputLocation(od, tn) == od.remote_directory \o <<"/">> \o tn \o <<"/", "IGV_tracks">>

\* as FindResults would be if every entry were taken
FindResultsLastEntry(dir, listing) == Len(listing)

\* the last entry of the directory whose local path has DMR_regions.csv in it, or 0
FindResults(dir, listing) ==
    LET hits == {i \in 1..Len(listing) :
                    Contains(dir.local_path \o <<"/">> \o listing[i].name, "DMR_regions.csv")}
    IN  IF hits = {} THEN 0 ELSE CHOOSE i \in hits : \A j \in hits : j <= i

CreateTrack ==
    /\ Ready("create_track")
    /\ FindResults(methyl_results, engine_out) # 0
    /\ LET table == engine_out[FindResults(methyl_results, engine_out)].table
       IN  /\ table.ncols = 7
           /\ df' = DataFrame(table.rows)
           /\ fs' = (TrackPath(track_name) :> TrackContent(track_name, DataFrame(table.rows)))
                        @@ fs
    /\ started' = Append(started, "create_track")
    /\ track_in' = methyl_results
    /\ dirs' = dirs \cup {TrackOutputDir(track_name)}
    /\ track_result' = LatchDir(TrackOutputDir(track_name),
                                TrackOutputLocation(output_directory, track_name))
    /\ done' = done \cup {"create_track"}
    /\ UNCHANGED <<samples, track_name, output_directory, knobs, error,
                   processed_bed_files, methyl_in, commands, engine_out, methyl_results>>

\* file_path stays "" and read_csv("") raises
CreateTrackMissing ==
    /\ Ready("create_track")
    /\ FindResults(methyl_results, engine_out) = 0
    /\ started' = Append(started, "create_track")
    /\ track_in' = methyl_results
    /\ dirs' = dirs \cup {TrackOutputDir(track_name)}
    /\ error' = "MissingResultsError"
    /\ UNCHANGED <<samples, track_name, output_directory, knobs, done,
                   processed_bed_files, methyl_in, commands, engine_out, methyl_results,
                   track_result, df, fs>>

\* assigning 7 column names to a table of another width raises
CreateTrackMalformed ==
    /\ Ready("create_track")
    /\ FindResults(methyl_results, engine_out) # 0
    /\ engine_out[FindResults(methyl_results, engine_out)].table.ncols # 7
    /\ started' = Append(started, "create_track")
    /\ track_in' = methyl_results
    /\ dirs' = dirs \cup {TrackOutputDir(track_name)}
    /\ error' = "MalformedResultsError"
    /\ UNCHANGED <<samples, track_name, output_directory, knobs, done,
                   processed_bed_files, methyl_in, commands, engine_out, methyl_results,
                   track_result, df, fs>>

Next ==
    \/ FormatBedFiles
    \/ FormatBedFilesFail
    \/ MethylTask
    \/ MethylTaskFail
    \/ CreateTrack
    \/ CreateTrackMissing
    \/ CreateTrackMalformed

Spec == Init /\ [][Next]_vars

(***************************************************************************)
(* create_track on its own: the state after format_bed_files and           *)
(* methyl_task have run on two samples, with every results directory of    *)
(* the bounds.                                                             *)
(***************************************************************************)
TrackSamples ==
    LET file == LatchFile(<<"/data", "/", "a.bed">>, <<"latch://", "/data", "/", "a.bed">>)
    IN  <<Sample(<<"a">>, file, TRUE), Sample(<<"b">>, file, FALSE)>>

InitTrack ==
    /\ samples = TrackSamples
    /\ track_name \in TrackNames
    /\ output_directory = [remote_directory |-> <<"latch://", "/", "out">>]
    /\ knobs = [base_cov_val |-> 3, tiling_val |-> 200, tile_coverage |-> 10,
                difference_val |-> 25, q_val |-> 5]
    /\ started = <<"format_bed_files", "methyl_task">>
    /\ done = {"format_bed_files", "methyl_task"}
    /\ error = "none"
    /\ processed_bed_files =
           [i \in 1..Len(samples) |-> FormatOne(output_directory, track_name, samples[i])]
    /\ methyl_in = processed_bed_files
    /\ commands = <<[args |-> Command(processed_bed_files, track_name, knobs),
                     returncode |-> 0]>>
    /\ engine_out \in Listings(DmrTables)
    /\ methyl_results = LatchDir(MethylOutputDir(track_name),
                                 MethylOutputLocation(output_directory, track_name))
    /\ track_in = NoDir
    /\ track_result = NoDir
    /\ df = <<>>
    /\ dirs = {BedOutputDir(track_name), MethylOutputDir(track_name)}
    /\ fs = WriteBeds(InputFiles, samples, track_name, Len(samples))

NextTrack ==
    \/ CreateTrack
    \/ CreateTrackMissing
    \/ CreateTrackMalformed

SpecTrack == InitTrack /\ [][NextTrack]_vars

(***************************************************************************)
(* format_bed_files on its own: one or two samples that read the same      *)
(* source table, for every table of the bounds, and a table of 10 columns. *)
(***************************************************************************)
Coverages == {0, 1, 7, 10, 375}

Percents == {0, 25, 50, 58, 100, 150}

BedRows == {BedRow(100, c, p) : c \in Coverages, p \in Percents}

BedTables == {[ncols |-> 11, rows |-> r] : r \in SeqsUpTo(BedRows, MaxBedRows) \ {<<>>}}

GoodFile == LatchFile(<<"/data", "/", "a.bed">>, <<"latch://", "/data", "/", "a.bed">>)

ShortFile == LatchFile(<<"/data", "/", "short.bed">>, <<"latch://", "/data", "/", "short.bed">>)

FormatSampleLists ==
    {<<Sample(<<"a">>, GoodFile, TRUE)>>,
     <<Sample(<<"a">>, GoodFile, TRUE), Sample(<<"b">>, GoodFile, FALSE)>>,
     <<Sample(<<"a">>, ShortFile, TRUE)>>,
     <<Sample(<<"a">>, GoodFile, TRUE), Sample(<<"b">>, ShortFile, FALSE)>>}

InitFormat ==
    /\ samples \in FormatSampleLists
    /\ track_name = <<"dmr">>
    /\ output_directory = [remote_directory |-> <<"latch://", "/", "out">>]
    /\ knobs = [base_cov_val |-> 3, tiling_val |-> 200, tile_coverage |-> 10,
                difference_val |-> 25, q_val |-> 5]
    /\ started = <<>>
    /\ done = {}
    /\ error = "none"
    /\ processed_bed_files = <<>>
    /\ methyl_in = <<>>
    /\ commands = <<>>
    /\ engine_out = <<>>
    /\ methyl_results = NoDir
    /\ track_in = NoDir
    /\ track_result = NoDir
    /\ df = <<>>
    /\ dirs = {}
    /\ \E t \in BedTables :
           fs = (GoodFile.local_path :> t) @@ InputFiles

NextFormat ==
    \/ FormatBedFiles
    \/ FormatBedFilesFail

SpecFormat == InitFormat /\ [][NextFormat]_vars

(***************************************************************************)
(* Properties                                                              *)
(***************************************************************************)
StageOrder == <<"format_bed_files", "methyl_task", "create_track">>

\* C1: the stages run in the order format_bed_files, methyl_task,
\* create_track; a stage starts only when the stage before it has returned,
\* methyl_task receives exactly what format_bed_files returned, create_track
\* receives exactly what methyl_task returned, and nothing of a stage exists
\* before that stage has started.
C1_StagesInOrder ==
    /\ \E k \in 0..Len(StageOrder) : started = SubSeq(StageOrder, 1, k)
    /\ HasStarted("methyl_task") =>
           /\ "format_bed_files" \in done
           /\ methyl_in = processed_bed_files
    /\ HasStarted("create_track") =>
           /\ "methyl_task" \in done
           /\ track_in = methyl_results
    /\ ~HasStarted("format_bed_files") => processed_bed_files = <<>> /\ fs = InputFiles
    /\ ~HasStarted("methyl_task") =>
           commands = <<>> /\ engine_out = <<>> /\ methyl_results = NoDir
    /\ ~HasStarted("create_track") => track_result = NoDir /\ df = <<>>

C1_Witness ==
    /\ started = StageOrder
    /\ done = {"format_bed_files", "methyl_task", "create_track"}
    /\ Len(samples) = 2

\* C2: when the engine exits with a non-zero status, methyl_task fails with
\* ExternalEngineError, the engine has been invoked exactly once, nothing
\* more runs, create_track has not run and there is no track file.
C2_EngineFailureAborts ==
    (\E i \in 1..Len(commands) : commands[i].returncode # 0) =>
        /\ error = "ExternalEngineError"
        /\ Len(commands) = 1
        /\ "methyl_task" \notin done
        /\ ~HasStarted("create_track")
        /\ track_result = NoDir
        /\ TrackPath(track_name) \notin DOMAIN fs
        /\ ~ENABLED Next

C2_Witness ==
    /\ Len(commands) = 1
    /\ commands[1].returncode # 0
    /\ error = "ExternalEngineError"

RelBedPath(tn, name) == tn \o <<"/", "processed_beds", "/">> \o name \o <<".bed">>

\* C3: when format_bed_files has returned, its result has one ProcessedBED
\* per Sample, in the order of the samples, with the sample's name and
\* treatment, and a bed_file whose local path is
\* <trackName>/processed_beds/<sampleName>.bed in the working directory and
\* whose remote path is <outputRoot>/<trackName>/processed_beds/<sampleName>.bed.
C3_OneProcessedBedPerSample ==
    "format_bed_files" \in done =>
        /\ Len(processed_bed_files) = Len(samples)
        /\ \A i \in 1..Len(samples) :
              /\ processed_bed_files[i].sample_name = samples[i].sample_name
              /\ processed_bed_files[i].treatment = samples[i].treatment
              /\ processed_bed_files[i].bed_file.local_path =
                     Cwd \o <<"/">> \o RelBedPath(track_name, samples[i].sample_name)
              /\ processed_bed_files[i].bed_file.remote_path =
                     output_directory.remote_directory \o <<"/">>
                         \o RelBedPath(track_name, samples[i].sample_name)

C3_Witness ==
    /\ "format_bed_files" \in done
    /\ Len(samples) = 2
    /\ samples[1].treatment
    /\ ~samples[2].treatment
    /\ samples[1].sample_name # samples[2].sample_name

\* the entries of a comma-joined string
Entries(str) == Split(str, ",")

\* C4: the engine is called with the words Rscript, methylkit_task.R, names,
\* paths, output directory, minCoverage, tileSize, tileCoverageCutoff,
\* methylationDifferenceCutoff, qValueCutoff, treatment labels, in this
\* order; each of names, paths and labels has exactly one entry per sample
\* and its i-th entry is the i-th sample's name, local path, and 1 or 0 as
\* the sample's treatment is true or false.
C4_ManifestOneEntryPerSample ==
    HasStarted("methyl_task") =>
        LET words == ShellWords(commands[1].args)
            n == Len(methyl_in)
        IN  /\ Len(words) = 11
            /\ words[1] = <<"Rscript">>
            /\ words[2] = <<"methylkit_task.R">>
            /\ Len(Entries(words[3])) = n
            /\ Len(Entries(words[4])) = n
            /\ Len(Entries(words[11])) = n
            /\ \A i \in 1..n :
                  /\ Entries(words[3])[i] = methyl_in[i].sample_name
                  /\ Entries(words[4])[i] = methyl_in[i].bed_file.local_path
                  /\ Entries(words[11])[i] =
                         IF methyl_in[i].treatment THEN <<"1">> ELSE <<"0">>
            /\ words[5] = Cwd \o <<"/">> \o track_name \o <<"/", "methylkit">>
            /\ words[6] = <<ToString(knobs.base_cov_val)>>
            /\ words[7] = <<ToString(knobs.tiling_val)>>
            /\ words[8] = <<ToString(knobs.tile_coverage)>>
            /\ words[9] = <<ToString(knobs.difference_val)>>
            /\ words[10] = StrHundredths(knobs.q_val)

\* the table create_track read
ResultRows == engine_out[FindResults(track_in, engine_out)].table.rows

TrackDone == "create_track" \in done

\* C5 as stated: R = round((1 - n) * 255) and B = round(n * 255).
C5_ColorRounded ==
    TrackDone =>
        \A i \in 1..Len(df) :
            LET n == df[i].normalized
            IN  df[i].color = <<RoundHalfEven((n.den - n.num) * 255, n.den), ",0,",
                                RoundHalfEven(n.num * 255, n.den)>>

\* C5: for every row, with n its normalized value in [0,1], the color is
\* "R,0,B" where R is the integer part of (1 - n) * 255 and B is the integer
\* part of n * 255 (what is behind the point is cut off, not rounded), the
\* green channel is 0, and this color is the row's itemRgb in the track.
C5_ColorTruncated ==
    TrackDone =>
        /\ Len(df) = Len(ResultRows)
        /\ \A i \in 1..Len(df) :
            LET n == df[i].normalized
                c == df[i].color
            IN  /\ n.den > 0 /\ 0 <= n.num /\ n.num <= n.den
                /\ IF MaxPval(ResultRows) = MinPval(ResultRows)
                   THEN n.num = n.den
                   ELSE n.num * (MaxPval(ResultRows) - MinPval(ResultRows)) =
                            n.den * (ResultRows[i].pvalue - MinPval(ResultRows))
                /\ Len(c) = 3
                /\ c[1] * n.den <= (n.den - n.num) * 255
                /\ (n.den - n.num) * 255 < (c[1] + 1) * n.den
                /\ c[2] = ",0,"
                /\ c[3] * n.den <= n.num * 255
                /\ n.num * 255 < (c[3] + 1) * n.den
                /\ fs[TrackPath(track_name)][i + 1][9] = c

C5_Witness ==
    /\ TrackDone
    /\ \E i \in 1..Len(df) :
          /\ (df[i].normalized.num * 255) % df[i].normalized.den # 0
          /\ 2 * df[i].normalized.num = df[i].normalized.den

AllEqualP(rows) == \A i, j \in 1..Len(rows) : rows[i].pvalue = rows[j].pvalue

\* C6: when all p-values of the results table are equal (a table of one row
\* included), create_track divides by nothing that is zero, every row's
\* normalized value is exactly 1 and every row's color is "0,0,255".
C6_EqualPValues ==
    (TrackDone /\ AllEqualP(ResultRows)) =>
        /\ Len(df) = Len(ResultRows)
        /\ \A i \in 1..Len(df) :
              /\ df[i].normalized.den # 0
              /\ df[i].normalized.num = df[i].normalized.den
              /\ df[i].color = <<0, ",0,", 255>>
              /\ fs[TrackPath(track_name)][i + 1][9] = <<0, ",0,", 255>>

C6_Witness ==
    /\ TrackDone
    /\ Len(ResultRows) = 2
    /\ AllEqualP(ResultRows)
    /\ ResultRows[1].pvalue > 0

\* C7: for two rows a and b of a results table with pvalue_a < pvalue_b, the
\* red channel of a is >= that of b and the blue channel of a is <= that of
\* b; when the p-values are not all equal, a row with the least p-value has
\* the normalized value 0 and a row with the greatest has 1.
C7_ColorMonotonic ==
    TrackDone =>
        /\ Len(df) = Len(ResultRows)
        /\ \A a, b \in 1..Len(df) :
              ResultRows[a].pvalue < ResultRows[b].pvalue =>
                  /\ df[a].color[1] >= df[b].color[1]
                  /\ df[a].color[3] <= df[b].color[3]
        /\ ~AllEqualP(ResultRows) =>
              \A a \in 1..Len(df) :
                  /\ ResultRows[a].pvalue = MinPval(ResultRows) =>
                         df[a].normalized.num = 0 /\ df[a].normalized.den # 0
                  /\ ResultRows[a].pvalue = MaxPval(ResultRows) =>
                         df[a].normalized.num = df[a].normalized.den

C7_Witness ==
    /\ TrackDone
    /\ Len(ResultRows) = 3
    /\ ResultRows[1].pvalue > ResultRows[2].pvalue
    /\ ResultRows[3].pvalue > ResultRows[1].pvalue
    /\ df[1].color[1] > df[3].color[1]
    /\ df[2].color[1] > df[1].color[1]

\* C8: the track file written for a results table of 7 columns is one header
\* line track name="<trackName>" description="." itemRgb="On" followed by one
\* row of 9 fields per region, in the order of the table: chrom, start, end
\* of the region, its qvalue as a string, 0, ".", start, end, and the color.
C8_TrackFile ==
    TrackDone =>
        LET file == fs[TrackPath(track_name)]
        IN  /\ Len(file) = 1 + Len(ResultRows)
            /\ file[1] = <<"track name=\"">> \o track_name
                             \o <<"\" description=\".\" itemRgb=\"On\"">>
            /\ \A i \in 1..Len(ResultRows) :
                  LET row == file[i + 1]
                      r == ResultRows[i]
                  IN  /\ Len(row) = 9
                      /\ row[1] = r.chr
                      /\ row[2] = r.start
                      /\ row[3] = r.end
                      /\ row[4] = ToString(r.qvalue)
                      /\ row[5] = 0
                      /\ row[6] = "."
                      /\ row[7] = r.start
                      /\ row[8] = r.end
                      /\ row[9] = df[i].color

C8_Witness ==
    /\ TrackDone
    /\ Len(ResultRows) = 2
    /\ ResultRows[1].start > ResultRows[2].start
    /\ ResultRows[1].pvalue # ResultRows[2].pvalue

NameMatches(e) == Contains(e.name, "DMR_regions.csv")

\* C9: create_track fails with MissingResultsError when no file of the input
\* directory has DMR_regions.csv in its name, and with MalformedResultsError
\* when the table it located has not exactly 7 columns; in both cases it
\* writes no track file.
C9_ResultsErrors ==
    HasStarted("create_track") =>
        LET hits == {i \in 1..Len(engine_out) : NameMatches(engine_out[i])}
            last == CHOOSE i \in hits : \A j \in hits : j <= i
        IN  /\ hits = {} =>
                  /\ error = "MissingResultsError"
                  /\ TrackPath(track_name) \notin DOMAIN fs
                  /\ ~TrackDone
            /\ (hits # {} /\ engine_out[last].table.ncols # 7) =>
                  /\ error = "MalformedResultsError"
                  /\ TrackPath(track_name) \notin DOMAIN fs
                  /\ ~TrackDone

C9_Witness ==
    /\ HasStarted("create_track")
    /\ Len(engine_out) = 1
    /\ ~NameMatches(engine_out[1])
    /\ error = "MissingResultsError"

\* the path below the working directory
RelativeToCwd(path) == SubSeq(path, Len(Cwd) + 2, Len(path))

Mirrored(latch) ==
    /\ SubSeq(latch.local_path, 1, Len(Cwd) + 1) = Cwd \o <<"/">>
    /\ latch.remote_path =
           output_directory.remote_directory \o <<"/">> \o RelativeToCwd(latch.local_path)

\* C10 as stated: every stage's local output location maps to <outputRoot>/
\* followed by the same relative path.
C10_AllMirrored ==
    /\ "format_bed_files" \in done =>
           \A i \in 1..Len(processed_bed_files) : Mirrored(processed_bed_files[i].bed_file)
    /\ "methyl_task" \in done => Mirrored(methyl_results)
    /\ "create_track" \in done => Mirrored(track_result)

\* C10: the Formatter's <trackName>/processed_beds/<sampleName>.bed and the
\* Track Builder's <trackName>/IGV_tracks map to <outputRoot>/ followed by the
\* same relative path; the DMR Invoker's local directory <trackName>/methylkit
\* maps to <outputRoot>/<trackName>/methylkit_results.
C10_MirroredButMethylkit ==
    /\ "format_bed_files" \in done =>
           \A i \in 1..Len(processed_bed_files) :
               /\ Mirrored(processed_bed_files[i].bed_file)
               /\ RelativeToCwd(processed_bed_files[i].bed_file.local_path) =
                      RelBedPath(track_name, samples[i].sample_name)
    /\ "methyl_task" \in done =>
           /\ methyl_results.local_path = Cwd \o <<"/">> \o track_name \o <<"/", "methylkit">>
           /\ methyl_results.remote_path =
                  output_directory.remote_directory \o <<"/">> \o track_name
                      \o <<"/", "methylkit_results">>
    /\ "create_track" \in done =>
           /\ Mirrored(track_result)
           /\ RelativeToCwd(track_result.local_path) = track_name \o <<"/", "IGV_tracks">>

C10_Witness ==
    /\ done = {"format_bed_files", "methyl_task", "create_track"}
    /\ Len(processed_bed_files) = 2

FormatDone == "format_bed_files" \in done

\* the table a sample was read from, and the table written for it
SourceRows(i) == fs[samples[i].bed_file.local_path].rows

WrittenRows(i) == fs[processed_bed_files[i].bed_file.local_path]

\* every written table has the rows of its source in their order, each of 12
\* columns: the nine leading ones and the coverage copied, and a
\* methylatedCount that is an integer nearest to coverage * percentMeth / 100
\* and at most the coverage when 0 <= percentMeth <= 100
FormatterKeepsRows ==
    FormatDone =>
        \A i \in 1..Len(samples) :
            /\ Len(WrittenRows(i)) = Len(SourceRows(i))
            /\ \A r \in 1..Len(SourceRows(i)) :
                  LET in == SourceRows(i)[r]
                      out == WrittenRows(i)[r]
                  IN  /\ Len(out) = 12
                      /\ SubSeq(out, 1, 9) = in.cols0_8
                      /\ out[10] = in.coverage
                      /\ 200 * out[11] - 2 * in.coverage * in.percentMeth <= 100
                      /\ 2 * in.coverage * in.percentMeth - 200 * out[11] <= 100
                      /\ (0 <= in.percentMeth /\ in.percentMeth <= 100) =>
                             out[11] <= in.coverage

\* C11: for every valid input table the Formatter's output has exactly 12
\* columns and the rows of the input in their order, and in every row
\* methylatedCount equals round(coverage * percentMeth / 100) as an integer,
\* so that methylatedCount <= coverage whenever 0 <= percentMeth <= 100.
C11_MethylatedCountIsRounded ==
    /\ FormatterKeepsRows
    /\ FormatDone =>
           \A i \in 1..Len(samples) :
               \A r \in 1..Len(SourceRows(i)) :
                   WrittenRows(i)[r][11] =
                       RoundHalfEven(SourceRows(i)[r].coverage * SourceRows(i)[r].percentMeth,
                                     100)

====
